---- MODULE Spec2Model ----
(***************************************************************************)
(* Decomposed affine quantization operators of                             *)
(* torch/ao/quantization/fx/_decomposed.py.                                *)
(*                                                                         *)
(* Every operator of the file is a pure function of its arguments.  The    *)
(* state records the last operator call: its name, its arguments and its   *)
(* outcome (a returned tensor or the raised error); src remembers the      *)
(* input of the quantize call whose result is being dequantized; saved     *)
(* holds what each FakeQuantPerChannel context saved for backward, pre     *)
(* the pre-clamp values its forward computed; meta is the outcome of the   *)
(* shape / dtype inference entry point (register_fake, Meta) of the last   *)
(* operator, called on the same arguments.  A tensor is a record           *)
(* [dtype, shape, data] with data in row-major order.  Floating values are *)
(* fixed-point numbers, counted in units of 1/Unit; integer tensors hold   *)
(* plain integers.  Scales are powers of two, for which 1.0 / scale and    *)
(* the products with it are exact in binary floating point, so the exact   *)
(* arithmetic below is the arithmetic of the code on these inputs.         *)
(***************************************************************************)
EXTENDS Integers, Sequences, FiniteSets, TLC

VARIABLES op, args, res, src, saved, pre, meta

vars == <<op, args, res, src, saved, pre, meta>>

(***************************************************************************)
(* Bounds of the model.                                                    *)
(***************************************************************************)
\* number of fractional bits of a modelled floating value
FracBits == 2
\* longest 1-D tensor handed to the per-tensor kernels
MaxLen == 2
\* largest size of one dimension of a multi-dimensional input
MaxDim == 2
\* longest scales / zero_points vector
MaxParamLen == 3

Unit == 2 ^ FracBits

(***************************************************************************)
(* Dtypes and the table of quantized value bounds.                         *)
(***************************************************************************)
FloatDtypes == {"float32", "float16", "bfloat16", "float64"}
IntDtypes == {"uint8", "int8", "int16", "int32", "int64"}

DTYPE_TO_QVALUE_BOUNDS ==
    [d \in {"uint8", "int8", "int16", "int32"} |->
        CASE d = "uint8" -> <<0, 255>>
          [] d = "int8"  -> <<-128, 127>>
          [] d = "int16" -> <<-(2 ^ 15), 2 ^ 15 - 1>>
          [] d = "int32" -> <<-2147483647 - 1, 2147483647>>]

\* value range of an integer dtype as the cast .to(dtype) sees it
IntRange(d) ==
    IF d \in DOMAIN DTYPE_TO_QVALUE_BOUNDS THEN DTYPE_TO_QVALUE_BOUNDS[d]
    ELSE <<-2147483647 - 1, 2147483647>>

(***************************************************************************)
(* Tensors and outcomes.                                                   *)
(***************************************************************************)
Tensor(d, sh, xs) == [dtype |-> d, shape |-> sh, data |-> xs]

NoTensor == Tensor("none", <<>>, <<>>)

\* out2 is the second tensor of a pair result, rest the remaining entries of
\* a longer tuple result
Ok(t) == [status |-> "ok", err |-> "", out |-> t, out2 |-> NoTensor, rest |-> <<>>]

Fail(e) == [status |-> "error", err |-> e, out |-> NoTensor, out2 |-> NoTensor, rest |-> <<>>]

\* the inference entry point has not been called on the last arguments
NotRun == [status |-> "none", err |-> "", out |-> NoTensor, out2 |-> NoTensor, rest |-> <<>>]

\* torch.empty / torch.empty_like: a shape and a dtype, no values
Empty(d, sh) == Tensor(d, sh, <<>>)

RECURSIVE Prod(_)
Prod(s) == IF s = <<>> THEN 1 ELSE Head(s) * Prod(Tail(s))

Numel(t) == Len(t.data)

Dim(t) == Len(t.shape)

(***************************************************************************)
(* Elementwise primitives of the tensor runtime.                           *)
(***************************************************************************)
\* torch.round of the rational n / d (d > 0): nearest integer, ties to even
RoundHalfEven(n, d) ==
    LET f == n \div d
        r == n % d
    IN  IF 2 * r < d THEN f
        ELSE IF 2 * r > d THEN f + 1
        ELSE IF f % 2 = 0 THEN f ELSE f + 1

\* torch.clamp(x, lo, hi) = min(max(x, lo), hi); lo > hi gives hi
Clamp(x, lo, hi) ==
    LET m == IF x < lo THEN lo ELSE x
    IN  IF m > hi THEN hi ELSE m

Abs(x) == IF x < 0 THEN -x ELSE x

\* tensor.to(dtype) of an integral float value v.  A value the dtype cannot
\* hold is undefined behaviour of the conversion: builds wrap it or saturate
\* it, and castMode says which.
Cast(v, d, castMode) ==
    LET lo == IntRange(d)[1]
        hi == IntRange(d)[2]
    IN  IF v >= lo /\ v <= hi THEN v
        ELSE IF castMode = "saturate" THEN Clamp(v, lo, hi)
        ELSE lo + ((v - lo) % (hi - lo + 1))

CastModes == {"wrap", "saturate"}

\* input.to(torch.float32) of a float16 / bfloat16 tensor
Widen(t) ==
    IF t.dtype \in {"float16", "bfloat16"}
    THEN Tensor("float32", t.shape, t.data) ELSE t

(***************************************************************************)
(* _quant_min_max_bounds_check: "" when the check passes, else the error.  *)
(***************************************************************************)
quant_min_max_bounds_check_no_min(quant_min, quant_max, dtype) ==
    IF dtype \notin DOMAIN DTYPE_TO_QVALUE_BOUNDS THEN "ValueError:unsupported_dtype"
    ELSE IF ~(quant_max <= DTYPE_TO_QVALUE_BOUNDS[dtype][2]) THEN "AssertionError:quant_max"
    ELSE ""

quant_min_max_bounds_check_no_max(quant_min, quant_max, dtype) ==
    IF dtype \notin DOMAIN DTYPE_TO_QVALUE_BOUNDS THEN "ValueError:unsupported_dtype"
    ELSE IF ~(quant_min >= DTYPE_TO_QVALUE_BOUNDS[dtype][1]) THEN "AssertionError:quant_min"
    ELSE ""

quant_min_max_bounds_check(quant_min, quant_max, dtype) ==
    IF dtype \notin DOMAIN DTYPE_TO_QVALUE_BOUNDS THEN "ValueError:unsupported_dtype"
    ELSE IF ~(quant_min >= DTYPE_TO_QVALUE_BOUNDS[dtype][1]) THEN "AssertionError:quant_min"
    ELSE IF ~(quant_max <= DTYPE_TO_QVALUE_BOUNDS[dtype][2]) THEN "AssertionError:quant_max"
    ELSE ""

(***************************************************************************)
(* quantize_per_tensor / dequantize_per_tensor.                            *)
(***************************************************************************)
\* inv_scale = 1.0 / scale, in units
InvScale(scale) == (Unit * Unit) \div scale

\* QuantElem with the rounding replaced by truncation toward minus infinity
QuantElemFloor(x, inv_scale, zero_point, quant_min, quant_max) ==
    Clamp(((x * inv_scale) \div (Unit * Unit)) + zero_point, quant_min, quant_max)

\* QuantElem with round-half-away-from-zero in place of torch.round
QuantElemHalfAway(x, inv_scale, zero_point, quant_min, quant_max) ==
    LET n == x * inv_scale
        d == Unit * Unit
        r == IF n >= 0 THEN (2 * n + d) \div (2 * d) ELSE -((2 * (-n) + d) \div (2 * d))
    IN  Clamp(r + zero_point, quant_min, quant_max)

\* clamp(round(x * inv_scale) + zero_point, quant_min, quant_max), x and
\* inv_scale in units
QuantElem(x, inv_scale, zero_point, quant_min, quant_max) ==
    Clamp(RoundHalfEven(x * inv_scale, Unit * Unit) + zero_point, quant_min, quant_max)

\* DequantElem with the parentheses lost: q - zero_point * scale
DequantElemNoParen(q, scale, zero_point) == q * Unit - zero_point * scale

\* (q.to(out_dtype) - zero_point) * scale, the result in units
DequantElem(q, scale, zero_point) == (q - zero_point) * scale

quantize_per_tensor(a, castMode) ==
    LET input == Widen(a.input)
        chk == quant_min_max_bounds_check(a.quant_min, a.quant_max, a.dtype)
    IN  IF input.dtype # "float32" THEN Fail("AssertionError:input_dtype")
        ELSE IF chk # "" THEN Fail(chk)
        ELSE Ok(Tensor(a.dtype, input.shape,
                 [i \in 1..Numel(input) |->
                    Cast(QuantElem(input.data[i], InvScale(a.scale), a.zero_point,
                                   a.quant_min, a.quant_max), a.dtype, castMode)]))

\* dequantize_per_tensor clamping the input into [quant_min, quant_max] first
dequantize_per_tensor_clamped(a) ==
    LET out_dtype == IF a.out_dtype = "None" THEN "float32" ELSE a.out_dtype
    IN  IF a.input.dtype # a.dtype THEN Fail("AssertionError:input_dtype")
        ELSE IF a.dtype \in DOMAIN DTYPE_TO_QVALUE_BOUNDS
        THEN Ok(Tensor(out_dtype, a.input.shape,
                 [i \in 1..Numel(a.input) |->
                    DequantElem(Clamp(a.input.data[i], a.quant_min, a.quant_max),
                                a.scale, a.zero_point)]))
        ELSE Fail("ValueError:unsupported_dtype")

dequantize_per_tensor(a) ==
    LET out_dtype == IF a.out_dtype = "None" THEN "float32" ELSE a.out_dtype
    IN  IF a.input.dtype # a.dtype THEN Fail("AssertionError:input_dtype")
        ELSE IF a.dtype \in DOMAIN DTYPE_TO_QVALUE_BOUNDS
        THEN Ok(Tensor(out_dtype, a.input.shape,
                 [i \in 1..Numel(a.input) |->
                    DequantElem(a.input.data[i], a.scale, a.zero_point)]))
        ELSE Fail("ValueError:unsupported_dtype")

(***************************************************************************)
(* Shapes, indices (0-based, as in the code) and broadcasting.             *)
(***************************************************************************)
Front(s) == SubSeq(s, 1, Len(s) - 1)

Last(s) == s[Len(s)]

\* row-major flat position (0-based) of the index idx in a tensor of shape sh
RECURSIVE Ravel(_, _)
Ravel(idx, sh) ==
    IF idx = <<>> THEN 0
    ELSE Ravel(Front(idx), Front(sh)) * Last(sh) + Last(idx)

\* the index of flat position k (0-based) in a tensor of shape sh
RECURSIVE Unravel(_, _)
Unravel(k, sh) ==
    IF sh = <<>> THEN <<>>
    ELSE Append(Unravel(k \div Last(sh), Front(sh)), k % Last(sh))

\* x.permute(perm): dimension j of the result is dimension perm[j] of x
Permute(t, perm) ==
    LET r == Dim(t)
        ns == [j \in 1..r |-> t.shape[perm[j] + 1]]
        old(idx) == [d \in 1..r |-> idx[CHOOSE j \in 1..r : perm[j] + 1 = d]]
    IN  Tensor(t.dtype, ns,
               [k \in 1..Numel(t) |-> t.data[Ravel(old(Unravel(k - 1, ns)), t.shape) + 1]])

\* dimension of a shape counted from the right (1 = last), 1 when absent
RDim(sh, j) == IF j <= Len(sh) THEN sh[Len(sh) - j + 1] ELSE 1

Max(a, b) == IF a >= b THEN a ELSE b

Broadcastable(s1, s2) ==
    \A j \in 1..Max(Len(s1), Len(s2)) :
        RDim(s1, j) = RDim(s2, j) \/ RDim(s1, j) = 1 \/ RDim(s2, j) = 1

BroadcastShape(s1, s2) ==
    LET r == Max(Len(s1), Len(s2))
    IN  [j \in 1..r |-> Max(RDim(s1, r - j + 1), RDim(s2, r - j + 1))]

\* the element of t that the index idx of a broadcast result reads
BroadcastAt(t, idx) ==
    LET r == Dim(t)
        off == Len(idx) - r
        own == [j \in 1..r |-> IF t.shape[j] = 1 THEN 0 ELSE idx[off + j]]
    IN  t.data[Ravel(own, t.shape) + 1]

(***************************************************************************)
(* _permute_to_axis_zero: the permuted tensor and the axis list.           *)
(***************************************************************************)
\* the axis list as a rotation by axis instead of a swap with position 0
AxisListRotated(x, axis) == [j \in 1..Dim(x) |-> (j - 1 + axis) % Dim(x)]

AxisList(x, axis) ==
    [j \in 1..Dim(x) |->
        IF j = 1 THEN axis
        ELSE IF j = axis + 1 THEN 0
        ELSE j - 1]

permute_to_axis_zero(x, axis) == <<Permute(x, AxisList(x, axis)), AxisList(x, axis)>>

(***************************************************************************)
(* quantize_per_channel / dequantize_per_channel.                          *)
(***************************************************************************)
quantize_per_channel(a, castMode) ==
    LET input == Widen(a.input)
        chk == quant_min_max_bounds_check(a.quant_min, a.quant_max, a.dtype)
        pa == permute_to_axis_zero(input, a.axis)
        p == pa[1]
        chan(k) == Unravel(k - 1, p.shape)[1] + 1
        r == Tensor("float32", p.shape,
               [k \in 1..Numel(p) |->
                  QuantElem(p.data[k], InvScale(a.scales.data[chan(k)]),
                            a.zero_points.data[chan(k)], a.quant_min, a.quant_max)])
        out == Permute(r, pa[2])
    IN  IF input.dtype # "float32" THEN Fail("AssertionError:input_dtype")
        ELSE IF ~(a.axis < Dim(input)) THEN Fail("AssertionError:axis")
        ELSE IF chk # "" THEN Fail(chk)
        ELSE IF p.shape[1] > Numel(a.scales) \/ p.shape[1] > Numel(a.zero_points)
             THEN Fail("IndexError:channel")
        ELSE Ok(Tensor(a.dtype, out.shape,
                 [k \in 1..Numel(out) |-> Cast(out.data[k], a.dtype, castMode)]))

\* a.zero_points = NoTensor stands for zero_points = None
dequantize_per_channel(a) ==
    LET out_dtype == IF a.out_dtype = "None" THEN "float32" ELSE a.out_dtype
        chk == quant_min_max_bounds_check(a.quant_min, a.quant_max, a.dtype)
        pa == permute_to_axis_zero(a.input, a.axis)
        p == pa[1]
        chan(k) == Unravel(k - 1, p.shape)[1] + 1
        zp(k) == IF a.zero_points # NoTensor THEN a.zero_points.data[chan(k)] ELSE 0
        r == Tensor(out_dtype, p.shape,
               [k \in 1..Numel(p) |-> DequantElem(p.data[k], a.scales.data[chan(k)], zp(k))])
    IN  IF a.input.dtype # a.dtype THEN Fail("AssertionError:input_dtype")
        ELSE IF ~(a.axis < Dim(a.input)) THEN Fail("AssertionError:axis")
        ELSE IF chk # "" THEN Fail(chk)
        ELSE IF p.shape[1] > Numel(a.scales)
                \/ (a.zero_points # NoTensor /\ p.shape[1] > Numel(a.zero_points))
             THEN Fail("IndexError:channel")
        ELSE Ok(Permute(r, pa[2]))

(***************************************************************************)
(* quantize_per_token / dequantize_per_token.                              *)
(***************************************************************************)
\* "" when the check passes, else the failed assertion
per_token_quant_qparam_dim_check_scales_only(input, scales, zero_points) ==
    LET num_tokens == Prod(Front(input.shape))
    IN  IF ~(num_tokens = Numel(scales)) THEN "AssertionError:num_tokens_scales"
        ELSE ""

per_token_quant_qparam_dim_check(input, scales, zero_points) ==
    LET num_tokens == Prod(Front(input.shape))
    IN  IF ~(num_tokens = Numel(scales)) THEN "AssertionError:num_tokens_scales"
        ELSE IF ~(num_tokens = Numel(zero_points)) THEN "AssertionError:num_tokens_zero_points"
        ELSE ""

\* round(x / s + z) for x and s in units, s > 0
DivAddRound(x, s, z) == RoundHalfEven(x + z * s, s)

\* torch.round(input / scales + zero_points).clamp(quant_min, quant_max).to(dtype),
\* the three operands broadcast against each other
QuantizeBroadcast(input, scales, zero_points, quant_min, quant_max, dtype, castMode) ==
    LET bs == BroadcastShape(BroadcastShape(input.shape, scales.shape), zero_points.shape)
    IN  Tensor(dtype, bs,
               [k \in 1..Prod(bs) |->
                  LET idx == Unravel(k - 1, bs)
                  IN  Cast(Clamp(DivAddRound(BroadcastAt(input, idx), BroadcastAt(scales, idx),
                                             BroadcastAt(zero_points, idx)),
                                 quant_min, quant_max), dtype, castMode)])

\* (input - zero_points).to(output_dtype) * scales, broadcast
DequantizeBroadcast(input, scales, zero_points, output_dtype) ==
    LET bs == BroadcastShape(BroadcastShape(input.shape, zero_points.shape), scales.shape)
    IN  Tensor(output_dtype, bs,
               [k \in 1..Prod(bs) |->
                  LET idx == Unravel(k - 1, bs)
                  IN  (BroadcastAt(input, idx) - BroadcastAt(zero_points, idx))
                          * BroadcastAt(scales, idx)])

Broadcastable3(s1, s2, s3) ==
    Broadcastable(s1, s2) /\ Broadcastable(BroadcastShape(s1, s2), s3)

quantize_per_token(a, castMode) ==
    LET chk == quant_min_max_bounds_check(a.quant_min, a.quant_max, a.dtype)
        dim == per_token_quant_qparam_dim_check(a.input, a.scales, a.zero_points)
    IN  IF chk # "" THEN Fail(chk)
        ELSE IF dim # "" THEN Fail(dim)
        ELSE IF ~Broadcastable3(a.input.shape, a.scales.shape, a.zero_points.shape)
             THEN Fail("RuntimeError:broadcast")
        ELSE Ok(QuantizeBroadcast(a.input, a.scales, a.zero_points,
                                  a.quant_min, a.quant_max, a.dtype, castMode))

dequantize_per_token(a) ==
    IF ~Broadcastable3(a.input.shape, a.zero_points.shape, a.scales.shape)
    THEN Fail("RuntimeError:broadcast")
    ELSE Ok(DequantizeBroadcast(a.input, a.scales, a.zero_points, a.output_dtype))

(***************************************************************************)
(* quantize_per_channel_group / dequantize_per_channel_group.              *)
(***************************************************************************)
\* a floating value that is not a number
NaN == -(2 ^ 20)

\* the group size without the single-column adjustment
GroupSizeNoFallback(input, scales, group_size) == group_size

\* group_size after the single-column adjustment
GroupSize(input, scales, group_size) ==
    IF group_size > Last(input.shape) /\ Last(scales.shape) = 1
    THEN Last(input.shape) ELSE group_size

\* x.reshape(-1, n)
ReshapeRows(x, n) == Tensor(x.dtype, <<Numel(x) \div n, n>>, x.data)

quantize_per_channel_group(a, castMode) ==
    LET gs == GroupSize(a.input, a.scales, a.group_size)
        to_quant == ReshapeRows(a.input, gs)
        scales == ReshapeRows(a.scales, 1)
        zero_points == ReshapeRows(a.zero_points, 1)
        q == QuantizeBroadcast(to_quant, scales, zero_points,
                               a.quant_min, a.quant_max, a.dtype, castMode)
    IN  IF ~(a.group_size > 1) THEN Fail("AssertionError:group_size")
        ELSE IF ~(Last(a.input.shape) % gs = 0) THEN Fail("AssertionError:divisible")
        ELSE IF ~(Dim(a.input) = 2) THEN Fail("AssertionError:dim")
        ELSE IF \E k \in 1..Numel(to_quant) : to_quant.data[k] = NaN
             THEN Fail("AssertionError:isnan")
        ELSE IF ~Broadcastable3(to_quant.shape, scales.shape, zero_points.shape)
             THEN Fail("RuntimeError:broadcast")
        ELSE IF Numel(q) # Numel(a.input) THEN Fail("RuntimeError:reshape_as")
        ELSE Ok(Tensor(a.dtype, a.input.shape, q.data))

\* a.zero_points = NoTensor stands for zero_points = None
dequantize_per_channel_group(a) ==
    LET gs == GroupSize(a.input, a.scales, a.group_size)
        w_int8_grouped == ReshapeRows(a.input, gs)
        scales == ReshapeRows(a.scales, 1)
        zp == IF a.zero_points # NoTensor THEN ReshapeRows(a.zero_points, 1)
              ELSE Tensor("int32", <<>>, <<0>>)
        w == DequantizeBroadcast(w_int8_grouped, scales, zp, a.output_dtype)
    IN  IF ~(a.group_size > 1) THEN Fail("AssertionError:group_size")
        ELSE IF ~(Last(a.input.shape) % gs = 0) THEN Fail("AssertionError:divisible")
        ELSE IF ~(Dim(a.input) = 2) THEN Fail("AssertionError:dim")
        ELSE IF ~Broadcastable3(w_int8_grouped.shape, zp.shape, scales.shape)
             THEN Fail("RuntimeError:broadcast")
        ELSE IF Numel(w) # Numel(a.input) THEN Fail("RuntimeError:reshape_as")
        ELSE Ok(Tensor(a.output_dtype, a.input.shape, w.data))

(***************************************************************************)
(* The shape / dtype inference entry points (register_fake) of the         *)
(* transform kernels: the checks they make and the descriptor they return. *)
(***************************************************************************)
quantize_per_tensor_fake(a) ==
    LET input == Widen(a.input)
    IN  IF input.dtype # "float32" THEN Fail("AssertionError:input_dtype")
        ELSE Ok(Empty(a.dtype, input.shape))

dequantize_per_tensor_meta(a) ==
    LET out_dtype == IF a.out_dtype = "None" THEN "float32" ELSE a.out_dtype
    IN  Ok(Empty(out_dtype, a.input.shape))

quantize_per_channel_meta(a) ==
    LET input == Widen(a.input)
        chk == quant_min_max_bounds_check(a.quant_min, a.quant_max, a.dtype)
    IN  IF input.dtype # "float32" THEN Fail("AssertionError:input_dtype")
        ELSE IF ~(a.axis < Dim(input)) THEN Fail("AssertionError:axis")
        ELSE IF chk # "" THEN Fail(chk)
        ELSE Ok(Empty(a.dtype, input.shape))

dequantize_per_channel_fake(a) ==
    LET out_dtype == IF a.out_dtype = "None" THEN "float32" ELSE a.out_dtype
        chk == quant_min_max_bounds_check(a.quant_min, a.quant_max, a.dtype)
    IN  IF a.input.dtype # a.dtype THEN Fail("AssertionError:input_dtype")
        ELSE IF ~(a.axis < Dim(a.input)) THEN Fail("AssertionError:axis")
        ELSE IF chk # "" THEN Fail(chk)
        ELSE Ok(Empty(out_dtype, a.input.shape))

quantize_per_token_fake(a) ==
    LET chk == quant_min_max_bounds_check(a.quant_min, a.quant_max, a.dtype)
    IN  IF chk # "" THEN Fail(chk)
        ELSE Ok(Empty(a.dtype, a.input.shape))

dequantize_per_token_fake(a) ==
    LET chk == quant_min_max_bounds_check(a.quant_min, a.quant_max, a.dtype)
    IN  IF chk # "" THEN Fail(chk)
        ELSE Ok(Empty(a.output_dtype, a.input.shape))

quantize_per_channel_group_fake(a) ==
    LET gs == GroupSize(a.input, a.scales, a.group_size)
    IN  IF ~(a.group_size > 1) THEN Fail("AssertionError:group_size")
        ELSE IF ~(Last(a.input.shape) % gs = 0) THEN Fail("AssertionError:divisible")
        ELSE IF ~(Dim(a.input) = 2) THEN Fail("AssertionError:dim")
        ELSE Ok(Empty(a.dtype, a.input.shape))

(***************************************************************************)
(* Input domains.                                                          *)
(***************************************************************************)
\* -1.0, -0.25, 0.0, 0.75, 1.25, 2.5
XVals == {k * (Unit \div 4) : k \in {-4, -1, 0, 3, 5, 10}}

\* 0.5 and 2.0
ScaleVals == {Unit \div 2, 2 * Unit}

ZeroPointVals == {-1, 0, 10}

QRange(lo, hi, d) == [quant_min |-> lo, quant_max |-> hi, dtype |-> d]

\* (quant_min, quant_max, dtype) triples: inside the dtype, narrow enough to
\* clamp, inverted, and outside the dtype on either side
QuantRanges ==
    { QRange(0, 255, "uint8"), QRange(-128, 127, "int8"), QRange(0, 1, "uint8"),
      QRange(-1, 1, "int8"), QRange(9, 12, "int16"), QRange(0, 255, "int32"),
      QRange(1, 0, "uint8"),
      QRange(0, 256, "uint8"), QRange(-129, 127, "int8"), QRange(150, 200, "int8"),
      QRange(-1, 255, "uint8"), QRange(0, 255, "int64"), QRange(0, -200, "int8") }

\* the ranges handed to the kernels that take vector parameters
VectorQuantRanges ==
    { QRange(0, 255, "uint8"), QRange(-1, 1, "int8"), QRange(9, 12, "int16"),
      QRange(1, 0, "uint8"), QRange(150, 200, "int8"), QRange(-129, 127, "int8"),
      QRange(0, 255, "int64") }

\* the spec's scenario input [-1.0, 0.0, 2.5]
ExampleInput == Tensor("float32", <<3>>, <<-Unit, 0, (5 * Unit) \div 2>>)

PerTensorInputs ==
    UNION {{Tensor("float32", <<n>>, xs) : xs \in [1..n -> XVals]} : n \in 1..MaxLen}
    \cup {Tensor(d, <<1>>, <<3 * (Unit \div 4)>>) : d \in {"float16", "bfloat16", "float64", "int32"}}
    \cup {ExampleInput}

QVals == {0, 8, 15}

QuantizedInputs ==
    UNION {{Tensor(d, <<n>>, xs) : xs \in [1..n -> QVals], d \in {"uint8", "int8", "int64"}}
           : n \in 1..MaxLen}

OutDtypes == {"None", "float16"}

\* shapes of rank 1 and 2
Shapes == {<<n>> : n \in 1..MaxDim} \cup {<<m, n>> : m, n \in 1..MaxDim}

XSeq == <<-4, 3, 10, 0, 5, -1>>

\* float data of a given length: the values of XSeq, started at k
XData(n, k) == [i \in 1..n |-> XSeq[((i + k) % Len(XSeq)) + 1] * (Unit \div 4)]

QSeq == <<8, 0, 15, 10>>

QData(n, k) == [i \in 1..n |-> QSeq[((i + k) % Len(QSeq)) + 1]]

FloatInputs ==
    {Tensor("float32", sh, XData(Prod(sh), k)) : sh \in Shapes, k \in {0, 3}}
    \cup {Tensor(d, <<1, 2>>, XData(2, 0)) : d \in {"bfloat16", "float64"}}

\* an input of rank 3
Rank3Input == Tensor("float32", <<MaxDim, 1, MaxDim>>, XData(MaxDim * MaxDim, 0))

IntInputs ==
    {Tensor("int8", sh, QData(Prod(sh), 0)) : sh \in Shapes}
    \cup {Tensor(d, <<1, 2>>, QData(2, 1)) : d \in {"uint8", "int16", "int64"}}

\* 1-D scales: 0.5 and 2.0 alternating
ScaleVecs ==
    {Tensor("float32", <<n>>, [i \in 1..n |-> IF (i + k) % 2 = 0 THEN Unit \div 2 ELSE 2 * Unit])
       : n \in 1..MaxParamLen, k \in 0..1}

ZpSeq == <<10, 0, -1>>

ZeroPointVecs ==
    {Tensor("int32", <<n>>, [i \in 1..n |-> ZpSeq[(i % Len(ZpSeq)) + 1]]) : n \in 1..MaxParamLen}

\* the same vectors as columns, shape (n, 1)
AsColumn(t) == Tensor(t.dtype, <<Numel(t), 1>>, t.data)

Axes == 0..2

GroupSizes == 1..4

\* an input holding a NaN
NaNInput == Tensor("float32", <<1, 2>>, <<NaN, 0>>)

NoSrc == [linked |-> FALSE, input |-> NoTensor]

\* the contexts of two independent FakeQuantPerChannel applications
Ctx == {"A", "B"}

NoPre == [temp |-> NoTensor, quant_min |-> 0, quant_max |-> 0]

(***************************************************************************)
(* The operator calls.  Every behaviour makes one call from the idle      *)
(* state; a successful quantize_per_tensor may be followed by the          *)
(* dequantize_per_tensor of its result.                                    *)
(***************************************************************************)
Init ==
    /\ op = "none"
    /\ args = [input |-> NoTensor]
    /\ res = Fail("none")
    /\ src = NoSrc
    /\ saved = [c \in Ctx |-> NoTensor]
    /\ pre = [c \in Ctx |-> NoPre]
    /\ meta = NotRun

Idle == op = "none"

\* one operator call
Call(name, a, r) ==
    /\ op' = name
    /\ args' = a
    /\ res' = r
    /\ src' = NoSrc
    /\ meta' = NotRun
    /\ UNCHANGED <<saved, pre>>

QuantizePerTensor ==
    /\ Idle
    /\ \E input \in PerTensorInputs, scale \in ScaleVals, zero_point \in ZeroPointVals,
       qr \in QuantRanges, castMode \in CastModes :
        LET a == [input |-> input, scale |-> scale, zero_point |-> zero_point,
                  quant_min |-> qr.quant_min, quant_max |-> qr.quant_max, dtype |-> qr.dtype]
        IN  Call("quantize_per_tensor", a, quantize_per_tensor(a, castMode))

DequantizePerTensor ==
    /\ Idle
    /\ \E input \in QuantizedInputs, scale \in ScaleVals, zero_point \in ZeroPointVals,
       qr \in VectorQuantRanges, out_dtype \in OutDtypes :
        LET a == [input |-> input, scale |-> scale, zero_point |-> zero_point,
                  quant_min |-> qr.quant_min, quant_max |-> qr.quant_max, dtype |-> qr.dtype,
                  out_dtype |-> out_dtype]
        IN  Call("dequantize_per_tensor", a, dequantize_per_tensor(a))

\* dequantize_per_tensor on the tensor quantize_per_tensor just returned,
\* with the same parameters
DequantizeQuantized ==
    /\ op = "quantize_per_tensor"
    /\ res.status = "ok"
    /\ LET a == [input |-> res.out, scale |-> args.scale, zero_point |-> args.zero_point,
                 quant_min |-> args.quant_min, quant_max |-> args.quant_max,
                 dtype |-> args.dtype, out_dtype |-> "None"]
       IN  /\ op' = "dequantize_per_tensor"
           /\ args' = a
           /\ res' = dequantize_per_tensor(a)
           /\ src' = [linked |-> TRUE, input |-> args.input]
           /\ meta' = NotRun
           /\ UNCHANGED <<saved, pre>>

QuantizePerChannel ==
    /\ Idle
    /\ \E input \in FloatInputs \cup {Rank3Input}, scales \in ScaleVecs, zero_points \in ZeroPointVecs,
       axis \in Axes, qr \in VectorQuantRanges, castMode \in CastModes :
        LET a == [input |-> input, scales |-> scales, zero_points |-> zero_points,
                  axis |-> axis, quant_min |-> qr.quant_min, quant_max |-> qr.quant_max,
                  dtype |-> qr.dtype]
        IN  Call("quantize_per_channel", a, quantize_per_channel(a, castMode))

DequantizePerChannel ==
    /\ Idle
    /\ \E input \in IntInputs, scales \in ScaleVecs, zero_points \in ZeroPointVecs \cup {NoTensor},
       axis \in Axes, qr \in VectorQuantRanges :
        LET a == [input |-> input, scales |-> scales, zero_points |-> zero_points,
                  axis |-> axis, quant_min |-> qr.quant_min, quant_max |-> qr.quant_max,
                  dtype |-> qr.dtype, out_dtype |-> "None"]
        IN  Call("dequantize_per_channel", a, dequantize_per_channel(a))

QuantizePerToken ==
    /\ Idle
    /\ \E input \in FloatInputs, scales \in ScaleVecs, zero_points \in ZeroPointVecs,
       column \in BOOLEAN, qr \in VectorQuantRanges, castMode \in CastModes :
        LET a == [input |-> input,
                  scales |-> IF column THEN AsColumn(scales) ELSE scales,
                  zero_points |-> IF column THEN AsColumn(zero_points) ELSE zero_points,
                  quant_min |-> qr.quant_min, quant_max |-> qr.quant_max, dtype |-> qr.dtype]
        IN  Call("quantize_per_token", a, quantize_per_token(a, castMode))

DequantizePerToken ==
    /\ Idle
    /\ \E input \in IntInputs, scales \in ScaleVecs, zero_points \in ZeroPointVecs,
       column \in BOOLEAN, qr \in VectorQuantRanges :
        LET a == [input |-> input,
                  scales |-> IF column THEN AsColumn(scales) ELSE scales,
                  zero_points |-> IF column THEN AsColumn(zero_points) ELSE zero_points,
                  quant_min |-> qr.quant_min, quant_max |-> qr.quant_max, dtype |-> qr.dtype,
                  output_dtype |-> "float32"]
        IN  Call("dequantize_per_token", a, dequantize_per_token(a))

QuantizePerChannelGroup ==
    /\ Idle
    /\ \E input \in FloatInputs \cup {NaNInput}, scales \in ScaleVecs, zero_points \in ZeroPointVecs,
       qr \in VectorQuantRanges, group_size \in GroupSizes, castMode \in CastModes :
        LET a == [input |-> input, scales |-> scales, zero_points |-> zero_points,
                  quant_min |-> qr.quant_min, quant_max |-> qr.quant_max, dtype |-> qr.dtype,
                  group_size |-> group_size]
        IN  Call("quantize_per_channel_group", a, quantize_per_channel_group(a, castMode))

DequantizePerChannelGroup ==
    /\ Idle
    /\ \E input \in IntInputs, scales \in ScaleVecs, zero_points \in ZeroPointVecs \cup {NoTensor},
       qr \in VectorQuantRanges, group_size \in GroupSizes :
        LET a == [input |-> input, scales |-> scales, zero_points |-> zero_points,
                  quant_min |-> qr.quant_min, quant_max |-> qr.quant_max, dtype |-> qr.dtype,
                  group_size |-> group_size, output_dtype |-> "float32"]
        IN  Call("dequantize_per_channel_group", a, dequantize_per_channel_group(a))

\* the inference entry point of the last operator, on the same arguments
Infer(name, r) ==
    /\ op = name
    /\ meta = NotRun
    /\ meta' = r
    /\ UNCHANGED <<op, args, res, src, saved, pre>>

QuantizePerTensorFake == Infer("quantize_per_tensor", quantize_per_tensor_fake(args))

DequantizePerTensorMeta == Infer("dequantize_per_tensor", dequantize_per_tensor_meta(args))

QuantizePerChannelMeta == Infer("quantize_per_channel", quantize_per_channel_meta(args))

DequantizePerChannelFake == Infer("dequantize_per_channel", dequantize_per_channel_fake(args))

QuantizePerTokenFake == Infer("quantize_per_token", quantize_per_token_fake(args))

DequantizePerTokenFake == Infer("dequantize_per_token", dequantize_per_token_fake(args))

QuantizePerChannelGroupFake ==
    Infer("quantize_per_channel_group", quantize_per_channel_group_fake(args))

Next ==
    \/ QuantizePerTensor
    \/ DequantizePerTensor
    \/ DequantizeQuantized
    \/ QuantizePerChannel
    \/ DequantizePerChannel
    \/ QuantizePerToken
    \/ DequantizePerToken
    \/ QuantizePerChannelGroup
    \/ DequantizePerChannelGroup
    \/ QuantizePerTensorFake
    \/ DequantizePerTensorMeta
    \/ QuantizePerChannelMeta
    \/ DequantizePerChannelFake
    \/ QuantizePerTokenFake
    \/ DequantizePerTokenFake
    \/ QuantizePerChannelGroupFake

Spec == Init /\ [][Next]_vars

(***************************************************************************)
(* FakeQuantPerChannel: forward saves the saturation mask in its context,  *)
(* backward reads it.                                                      *)
(***************************************************************************)
\* shape of _unsqueeze_multiple(v, broadcast_dims) for a 1-D v of n entries
UnsqueezeShape(n, axis, ndim) == [j \in 1..ndim |-> IF j = axis + 1 THEN n ELSE 1]

\* the mask without its lower comparison
FakeQuantMaskUpperOnly(temp, quant_min, quant_max) ==
    IF temp <= quant_max THEN 1 ELSE 0

\* logical_and(temp >= quant_min, temp <= quant_max), as 0 / 1
FakeQuantMask(temp, quant_min, quant_max) ==
    IF temp >= quant_min /\ temp <= quant_max THEN 1 ELSE 0

\* the output element without the clamp
FakeQuantElemNoClamp(temp, scale, zero_point, quant_min, quant_max) ==
    (temp - zero_point) * scale

\* (torch.clamp(temp, quant_min, quant_max) - zero_point) * scale
FakeQuantElem(temp, scale, zero_point, quant_min, quant_max) ==
    (Clamp(temp, quant_min, quant_max) - zero_point) * scale

\* the result of forward, the mask it saves and its pre-clamp values temp
FakeQuantPerChannel_forward(a) ==
    LET ndim == Dim(a.input)
        us == Tensor("float32", UnsqueezeShape(Numel(a.scales), a.axis, ndim), a.scales.data)
        uzp == Tensor("int32", UnsqueezeShape(Numel(a.zero_points), a.axis, ndim),
                      a.zero_points.data)
        bs == BroadcastShape(BroadcastShape(a.input.shape, us.shape), uzp.shape)
        temp == [k \in 1..Prod(bs) |->
                   LET idx == Unravel(k - 1, bs)
                   IN  RoundHalfEven(BroadcastAt(a.input, idx) * InvScale(BroadcastAt(us, idx)),
                                     Unit * Unit) + BroadcastAt(uzp, idx)]
        out == [k \in 1..Prod(bs) |->
                   LET idx == Unravel(k - 1, bs)
                   IN  FakeQuantElem(temp[k], BroadcastAt(us, idx), BroadcastAt(uzp, idx),
                                     a.quant_min, a.quant_max)]
        mask == [k \in 1..Prod(bs) |-> FakeQuantMask(temp[k], a.quant_min, a.quant_max)]
        fail(e) == [r |-> Fail(e), mask |-> NoTensor, temp |-> NoTensor]
    IN  IF a.input.dtype # "float32" THEN fail("AssertionError:input_dtype")
        ELSE IF ~(a.axis < ndim) THEN fail("AssertionError:axis")
        ELSE IF ~Broadcastable3(a.input.shape, us.shape, uzp.shape)
             THEN fail("RuntimeError:broadcast")
        ELSE [r |-> Ok(Tensor("float32", bs, out)),
              mask |-> Tensor("bool", bs, mask),
              temp |-> Tensor("float32", bs, temp)]

NoGrads == <<"None", "None", "None", "None", "None">>

\* (gy * mask, None, None, None, None, None)
FakeQuantPerChannel_backward(mask, gy) ==
    IF ~Broadcastable(gy.shape, mask.shape) THEN Fail("RuntimeError:broadcast")
    ELSE LET bs == BroadcastShape(gy.shape, mask.shape)
         IN  [Ok(Tensor(gy.dtype, bs,
                   [k \in 1..Prod(bs) |->
                      LET idx == Unravel(k - 1, bs)
                      IN  BroadcastAt(gy, idx) * BroadcastAt(mask, idx)]))
              EXCEPT !.rest = NoGrads]

\* what a context holds once backward has consumed its saved tensors, or when
\* its forward raised
Released == Tensor("released", <<>>, <<>>)

\* save_for_backward writing one slot that every context shares
save_for_backward_shared(sv, c, mask) == [x \in Ctx |-> mask]

\* ctx.save_for_backward(mask): the mask goes into the context of this forward
save_for_backward(sv, c, mask) == [sv EXCEPT ![c] = mask]

FakeQuantInputs ==
    {Tensor("float32", sh, XData(Prod(sh), 5)) : sh \in {<<MaxDim>>, <<MaxDim, MaxDim>>}}
    \cup {Tensor("float64", <<1, 2>>, XData(2, 5))}

FakeQuantScales == {t \in ScaleVecs : Numel(t) \in {1, MaxDim} /\ 2 * t.data[1] = Unit}

FakeQuantZeroPoints == {t \in ZeroPointVecs : Numel(t) \in {1, MaxDim}}

FakeQuantRanges == {<<9, 12>>, <<-1, 1>>}

GSeq == <<4, -8, 12, 20>>

\* incoming gradients of a given shape, all non-zero
Grads(sh) ==
    {Tensor("float32", sh, [i \in 1..Prod(sh) |-> GSeq[((i + k) % Len(GSeq)) + 1] * (Unit \div 4)])
        : k \in 0..1}

Forward(c) ==
    /\ saved[c] = NoTensor
    /\ \E input \in FakeQuantInputs, scales \in FakeQuantScales,
          zero_points \in FakeQuantZeroPoints, axis \in Axes, qr \in FakeQuantRanges :
          LET a == [ctx |-> c, input |-> input, scales |-> scales,
                    zero_points |-> zero_points, axis |-> axis,
                    quant_min |-> qr[1], quant_max |-> qr[2]]
              f == FakeQuantPerChannel_forward(a)
          IN  /\ op' = "fake_quant_forward"
              /\ args' = a
              /\ res' = f.r
              /\ saved' = IF f.r.status = "ok" THEN save_for_backward(saved, c, f.mask)
                          ELSE [saved EXCEPT ![c] = Released]
              /\ pre' = IF f.r.status = "ok"
                        THEN [pre EXCEPT ![c] = [temp |-> f.temp, quant_min |-> qr[1],
                                                 quant_max |-> qr[2]]]
                        ELSE pre
              /\ meta' = NotRun
              /\ UNCHANGED src

Backward(c) ==
    /\ saved[c].dtype = "bool"
    /\ \E gy \in Grads(saved[c].shape) :
          /\ op' = "fake_quant_backward"
          /\ args' = [ctx |-> c, gy |-> gy]
          /\ res' = FakeQuantPerChannel_backward(saved[c], gy)
          /\ saved' = [saved EXCEPT ![c] = Released]
          /\ meta' = NotRun
          /\ UNCHANGED <<src, pre>>

NextFakeQuant == \E c \in Ctx : Forward(c) \/ Backward(c)

SpecFakeQuant == Init /\ [][NextFakeQuant]_vars

(***************************************************************************)
(* Parameter derivation.  A derived scale is a rational [num, den] of      *)
(* real value num / den.                                                   *)
(***************************************************************************)
Rat(n, d) == [num |-> n, den |-> d]

RatMax(x, y) == IF x.num * y.den >= y.num * x.den THEN x ELSE y

Ok2(t1, t2) == [Ok(t1) EXCEPT !.out2 = t2]

SeqMin(xs) == CHOOSE x \in {xs[i] : i \in 1..Len(xs)} : \A i \in 1..Len(xs) : x <= xs[i]

SeqMax(xs) == CHOOSE x \in {xs[i] : i \in 1..Len(xs)} : \A i \in 1..Len(xs) : x >= xs[i]

\* validate_qmin_qmax of torch.ao.quantization.utils: qmin < qmax is required
validate_qmin_qmax(qmin, qmax) == IF qmin < qmax THEN "" ELSE "AssertionError:qmin_qmax"

\* determine_qparams of torch.ao.quantization.utils: <<scale, zero_point>>.
\* Affine: scale = max((max_val - min_val) / (qmax - qmin), eps) and the
\* zero_point puts 0.0 on an integer grid point, clamped into [qmin, qmax].
\* Symmetric: zero_point = 0 and the scale comes from max(|min_val|, |max_val|).
determine_qparams(min_val, max_val, qmin, qmax, dtype, eps, qscheme) ==
    IF qscheme = "per_tensor_symmetric"
    THEN <<RatMax(Rat(2 * Max(Abs(min_val), Abs(max_val)), Unit * (qmax - qmin)), eps), 0>>
    ELSE LET scale == RatMax(Rat(max_val - min_val, Unit * (qmax - qmin)), eps)
         IN  <<scale,
               Clamp(qmin - RoundHalfEven(min_val * scale.den, Unit * scale.num), qmin, qmax)>>

\* the checks that choose_qparams_tensor and choose_qparams_symmetric_tensor share
ChooseQParamsChecks(a) ==
    IF a.input.dtype \notin {"float32", "float16", "bfloat16"} THEN "AssertionError:input_dtype"
    ELSE IF a.dtype \notin DOMAIN DTYPE_TO_QVALUE_BOUNDS THEN "AssertionError:target_dtype"
    ELSE validate_qmin_qmax(a.qmin, a.qmax)

QParamsResult(qp) ==
    Ok2(Tensor("float64", <<1>>, <<qp[1]>>), Tensor("int64", <<1>>, <<qp[2]>>))

choose_qparams_tensor(a) ==
    IF ChooseQParamsChecks(a) # "" THEN Fail(ChooseQParamsChecks(a))
    ELSE QParamsResult(determine_qparams(SeqMin(a.input.data), SeqMax(a.input.data),
                                         a.qmin, a.qmax, a.dtype, a.eps, "per_tensor_affine"))

\* choose_qparams_symmetric_tensor without its qscheme argument
choose_qparams_symmetric_tensor_no_qscheme(a) == choose_qparams_tensor(a)

choose_qparams_symmetric_tensor(a) ==
    IF ChooseQParamsChecks(a) # "" THEN Fail(ChooseQParamsChecks(a))
    ELSE QParamsResult(determine_qparams(SeqMin(a.input.data), SeqMax(a.input.data),
                                         a.qmin, a.qmax, a.dtype, a.eps, "per_tensor_symmetric"))

\* input.abs().amax(dim=-1) of token t (0-based)
TokenAbsMax(input, t) ==
    LET n == Last(input.shape)
    IN  SeqMax([j \in 1..n |-> Abs(input.data[t * n + j])])

\* scales.clamp(min=1e-5).div(quant_max)
PerTokenScale(amax, quant_max) ==
    IF amax * 100000 >= Unit THEN Rat(amax, Unit * quant_max) ELSE Rat(1, 100000 * quant_max)

\* the scales and zero_points of choose_qparams_per_token, given the shape
\* that amax gives them
PerTokenQParams(a, sh) ==
    LET d == IF a.input.dtype = "float16" THEN "float32" ELSE a.input.dtype
        quant_max == 2 ^ (8 - 1) - 1
    IN  IF a.dtype # "int8" THEN Fail("Exception:unsupported_dtype")
        ELSE Ok2(Tensor(d, sh, [t \in 1..Prod(sh) |->
                                  PerTokenScale(TokenAbsMax(a.input, t - 1), quant_max)]),
                 Tensor(d, sh, [t \in 1..Prod(sh) |-> 0]))

\* choose_qparams_per_token with amax(dim=-1) not keeping the reduced dimension
choose_qparams_per_token_no_keepdim(a) == PerTokenQParams(a, Front(a.input.shape))

\* amax(dim=-1, keepdim=True) keeps the leading dimensions and makes the last 1
choose_qparams_per_token(a) == PerTokenQParams(a, Append(Front(a.input.shape), 1))

\* torch.aminmax(input, dim=-1) of token t (0-based)
TokenMin(input, t) ==
    LET n == Last(input.shape)
    IN  SeqMin([j \in 1..n |-> input.data[t * n + j]])

TokenMax(input, t) ==
    LET n == Last(input.shape)
    IN  SeqMax([j \in 1..n |-> input.data[t * n + j]])

\* torch.finfo(torch.float32).eps
Float32Eps == Rat(1, 2 ^ 23)

\* ((max_val_pos - min_val_neg) / float(qmax - qmin)).clamp(min=eps)
AsymmetricScale(min_val_neg, max_val_pos, qmin, qmax) ==
    RatMax(Rat(max_val_pos - min_val_neg, Unit * (qmax - qmin)), Float32Eps)

\* the zero_point always taken from the min side
AsymmetricZeroPointFromMin(min_val_neg, max_val_pos, scale, qmin, qmax) ==
    LET den == Unit * scale.num
        from_min == qmin * den - min_val_neg * scale.den
    IN  RoundHalfEven(Clamp(from_min, qmin * den, qmax * den), den)

\* torch.where(zero_point_from_min_error + zero_point_from_max_error > 0,
\* qmin - descaled_min, qmax - descaled_max), clamped and rounded; min_val_neg
\* / scale is the rational min_val_neg * scale.den / (Unit * scale.num)
AsymmetricZeroPoint(min_val_neg, max_val_pos, scale, qmin, qmax) ==
    LET den == Unit * scale.num
        zero_point_from_min_error == qmin * den + min_val_neg * scale.den
        zero_point_from_max_error == qmax * den + max_val_pos * scale.den
        chosen == IF zero_point_from_min_error + zero_point_from_max_error > 0
                  THEN qmin * den - min_val_neg * scale.den
                  ELSE qmax * den - max_val_pos * scale.den
    IN  RoundHalfEven(Clamp(chosen, qmin * den, qmax * den), den)

choose_qparams_per_token_asymmetric(a) ==
    LET qmin == -128
        qmax == 127
        sh == Append(Front(a.input.shape), 1)
        min_val_neg(t) == IF TokenMin(a.input, t) < 0 THEN TokenMin(a.input, t) ELSE 0
        max_val_pos(t) == IF TokenMax(a.input, t) > 0 THEN TokenMax(a.input, t) ELSE 0
        scale(t) == AsymmetricScale(min_val_neg(t), max_val_pos(t), qmin, qmax)
    IN  Ok2(Tensor("float32", sh, [t \in 1..Prod(sh) |-> scale(t - 1)]),
            Tensor("float32", sh,
                   [t \in 1..Prod(sh) |->
                      AsymmetricZeroPoint(min_val_neg(t - 1), max_val_pos(t - 1),
                                          scale(t - 1), qmin, qmax)]))

(***************************************************************************)
(* The inference entry points of the parameter derivation.                 *)
(***************************************************************************)
choose_qparams_tensor_fake(a) ==
    IF a.input.dtype \notin {"float32", "float16", "bfloat16"} THEN Fail("AssertionError:input_dtype")
    ELSE IF ~(a.qmin < a.qmax) THEN Fail("AssertionError:qmin_qmax")
    ELSE Ok2(Empty("float64", <<1>>), Empty("int64", <<1>>))

choose_qparams_symmetric_tensor_fake(a) ==
    Ok2(Empty("float64", <<1>>), Empty("int64", <<1>>))

\* size = (1, input.size(-1))
choose_qparams_per_token_fake(a) ==
    Ok2(Empty("float64", <<1, Last(a.input.shape)>>), Empty("int64", <<1, Last(a.input.shape)>>))

choose_qparams_per_token_asymmetric_fake(a) ==
    Ok2(Empty("float64", <<1, Last(a.input.shape)>>), Empty("int64", <<1, Last(a.input.shape)>>))

QMinMaxPairs == {<<0, 255>>, <<-128, 127>>, <<-8, 7>>, <<3, 3>>, <<5, 3>>}

EpsVals == {Rat(1, 1024), Rat(1, 2)}

TargetDtypes == {"uint8", "int8", "int32", "int64"}

\* shapes of rank 1, 2 and 3
TokenShapes == Shapes \cup {<<l, m, n>> : l, m, n \in 1..MaxDim}

TokenInputs ==
    {Tensor("float32", sh, XData(Prod(sh), k)) : sh \in TokenShapes, k \in {0, 5}}
    \cup {Tensor("float16", <<2, 2>>, XData(4, 0)), Tensor("bfloat16", <<1, 2>>, <<0, 0>>)}

ChooseQParams ==
    /\ Idle
    /\ \E input \in FloatInputs, q \in QMinMaxPairs, eps \in EpsVals, dtype \in TargetDtypes :
          LET a == [input |-> input, qmin |-> q[1], qmax |-> q[2], eps |-> eps, dtype |-> dtype]
          IN  Call("choose_qparams", a, choose_qparams_tensor(a))

ChooseQParamsSymmetric ==
    /\ Idle
    /\ \E input \in FloatInputs, q \in QMinMaxPairs, eps \in EpsVals, dtype \in TargetDtypes :
          LET a == [input |-> input, qmin |-> q[1], qmax |-> q[2], eps |-> eps, dtype |-> dtype]
          IN  Call("choose_qparams_symmetric", a, choose_qparams_symmetric_tensor(a))

ChooseQParamsPerToken ==
    /\ Idle
    /\ \E input \in TokenInputs, dtype \in TargetDtypes :
          LET a == [input |-> input, dtype |-> dtype]
          IN  Call("choose_qparams_per_token", a, choose_qparams_per_token(a))

\* inputs with a token of zeros only
AsymmetricInputs ==
    TokenInputs \cup {Tensor("float32", <<2, 2>>, <<0, 0, -Unit, (5 * Unit) \div 2>>)}

ChooseQParamsPerTokenAsymmetric ==
    /\ Idle
    /\ \E input \in AsymmetricInputs, dtype \in TargetDtypes :
          LET a == [input |-> input, dtype |-> dtype]
          IN  Call("choose_qparams_per_token_asymmetric", a,
                   choose_qparams_per_token_asymmetric(a))

ChooseQParamsFake == Infer("choose_qparams", choose_qparams_tensor_fake(args))

ChooseQParamsSymmetricFake ==
    Infer("choose_qparams_symmetric", choose_qparams_symmetric_tensor_fake(args))

ChooseQParamsPerTokenFake ==
    Infer("choose_qparams_per_token", choose_qparams_per_token_fake(args))

ChooseQParamsPerTokenAsymmetricFake ==
    Infer("choose_qparams_per_token_asymmetric", choose_qparams_per_token_asymmetric_fake(args))

NextQParams ==
    \/ ChooseQParams
    \/ ChooseQParamsSymmetric
    \/ ChooseQParamsPerToken
    \/ ChooseQParamsPerTokenAsymmetric
    \/ ChooseQParamsFake
    \/ ChooseQParamsSymmetricFake
    \/ ChooseQParamsPerTokenFake
    \/ ChooseQParamsPerTokenAsymmetricFake

SpecQParams == Init /\ [][NextQParams]_vars

(***************************************************************************)
(* Properties of the transform kernels, checked under Spec.                *)
(***************************************************************************)
Supported(d) == d \in {"uint8", "int8", "int16", "int32"}

\* the dtype's representable range, written out
DtypeMin(d) ==
    CASE d = "uint8" -> 0 [] d = "int8" -> -128 [] d = "int16" -> -32768
      [] OTHER -> -2147483647 - 1

DtypeMax(d) ==
    CASE d = "uint8" -> 255 [] d = "int8" -> 127 [] d = "int16" -> 32767
      [] OTHER -> 2147483647

OutOfRange(a) ==
    Supported(a.dtype) /\ (a.quant_min < DtypeMin(a.dtype) \/ a.quant_max > DtypeMax(a.dtype))

RoundTrip == op = "dequantize_per_tensor" /\ src.linked

\* C1: dequantize_per_tensor(quantize_per_tensor(x)) with the same scale > 0,
\* zero_point and quant_min <= quant_max differs from
\* clamp(x, (quant_min - zp) * s, (quant_max - zp) * s) by at most s / 2 in
\* every element.
RoundTripBound ==
    (RoundTrip /\ args.quant_min <= args.quant_max) =>
        /\ res.status = "ok"
        /\ Numel(res.out) = Numel(src.input)
        /\ \A i \in 1..Numel(src.input) :
              2 * Abs(res.out.data[i]
                      - Clamp(src.input.data[i],
                              (args.quant_min - args.zero_point) * args.scale,
                              (args.quant_max - args.zero_point) * args.scale))
                 <= args.scale

\* a round trip in which one element is clamped and another one is rounded
\* by exactly half a step
RoundTripBoundWitness ==
    /\ RoundTrip
    /\ args.quant_min <= args.quant_max
    /\ res.status = "ok"
    /\ \E i, j \in 1..Numel(src.input) :
          /\ src.input.data[i] > (args.quant_max - args.zero_point) * args.scale
          /\ res.out.data[i] = (args.quant_max - args.zero_point) * args.scale
          /\ 2 * Abs(res.out.data[j] - src.input.data[j]) = args.scale

\* C2: quantize_per_tensor returns clamp(round(x / scale) + zero_point,
\* quant_min, quant_max) cast to the requested dtype for every element x,
\* round being round-half-to-even; [-1.0, 0.0, 2.5] with scale 0.5,
\* zero_point 10, quant_min 0, quant_max 255, uint8 gives [8, 10, 15].
QuantizePerTensorFormula ==
    (op = "quantize_per_tensor" /\ res.status = "ok") =>
        /\ res.out.dtype = args.dtype
        /\ res.out.shape = args.input.shape
        /\ \A i \in 1..Numel(args.input) :
              LET v == Clamp(RoundHalfEven(args.input.data[i], args.scale) + args.zero_point,
                             args.quant_min, args.quant_max)
              IN  IF v >= DtypeMin(args.dtype) /\ v <= DtypeMax(args.dtype)
                  THEN res.out.data[i] = v
                  ELSE res.out.data[i] \in {Cast(v, args.dtype, m) : m \in CastModes}
        /\ (/\ args.input = ExampleInput
            /\ 2 * args.scale = Unit
            /\ args.zero_point = 10
            /\ args.quant_min = 0
            /\ args.quant_max = 255
            /\ args.dtype = "uint8") => res.out.data = <<8, 10, 15>>

\* a call that rounds the tie 2.5 down to the even 2 and, in another element,
\* the tie 1.5 up to the even 2
QuantizePerTensorFormulaWitness ==
    /\ op = "quantize_per_tensor"
    /\ res.status = "ok"
    /\ args.quant_min = 0
    /\ args.quant_max = 255
    /\ \E i, j \in 1..Numel(args.input) :
          /\ 2 * args.input.data[i] = 5 * args.scale
          /\ res.out.data[i] = 2 + args.zero_point
          /\ 2 * args.input.data[j] = 3 * args.scale
          /\ res.out.data[j] = 2 + args.zero_point

QuantizeOps ==
    {"quantize_per_tensor", "quantize_per_channel", "quantize_per_token",
     "quantize_per_channel_group"}

\* C3: every result of quantize_per_tensor, quantize_per_channel,
\* quantize_per_token and quantize_per_channel_group has all its elements in
\* [quant_min, quant_max], and [quant_min, quant_max] lies inside the range of
\* the requested dtype.
QuantizedArrayInvariant ==
    (op \in QuantizeOps /\ res.status = "ok") =>
        /\ \A i \in 1..Numel(res.out) :
              args.quant_min <= res.out.data[i] /\ res.out.data[i] <= args.quant_max
        /\ Supported(args.dtype)
        /\ DtypeMin(args.dtype) <= args.quant_min
        /\ args.quant_max <= DtypeMax(args.dtype)

OnGrid(x, scale) == x % scale = 0

\* the quantized value of the grid point x
GridIndex(x, scale, zero_point) == (x \div scale) + zero_point

\* C4, as stated: data on the grid of (scale, zero_point), x = (q - zp) * s for
\* an integer q, comes back exactly from quantize_per_tensor followed by
\* dequantize_per_tensor with the same parameters.
GridRoundTripExactAnyQ ==
    (RoundTrip /\ \A i \in 1..Numel(src.input) : OnGrid(src.input.data[i], args.scale)) =>
        /\ res.status = "ok"
        /\ res.out.data = src.input.data

\* C4, amended: data on the grid with quant_min <= q <= quant_max comes back
\* exactly; [8, 10, 15] with scale 0.5 and zero_point 10 dequantizes to
\* [-1.0, 0.0, 2.5].
GridRoundTripExact ==
    /\ (/\ RoundTrip
        /\ \A i \in 1..Numel(src.input) :
              /\ OnGrid(src.input.data[i], args.scale)
              /\ args.quant_min <= GridIndex(src.input.data[i], args.scale, args.zero_point)
              /\ GridIndex(src.input.data[i], args.scale, args.zero_point) <= args.quant_max)
       => (res.status = "ok" /\ res.out.data = src.input.data)
    /\ (/\ op = "dequantize_per_tensor"
        /\ res.status = "ok"
        /\ args.input.data = <<8, 10, 15>>
        /\ 2 * args.scale = Unit
        /\ args.zero_point = 10) => res.out.data = <<-Unit, 0, (5 * Unit) \div 2>>

\* the scenario of the spec: [-1.0, 0.0, 2.5] quantized to [8, 10, 15] and back
GridRoundTripExactWitness ==
    /\ RoundTrip
    /\ src.input = ExampleInput
    /\ args.input.data = <<8, 10, 15>>
    /\ args.zero_point = 10
    /\ res.status = "ok"
    /\ res.out.data = ExampleInput.data

\* C6: quantize_per_tensor with quant_max above the dtype's maximum, quant_min
\* below its minimum, or a dtype outside uint8/int8/int16/int32 fails and
\* returns no output.
QuantizePerTensorBoundsCheck ==
    (op = "quantize_per_tensor" /\ (OutOfRange(args) \/ ~Supported(args.dtype))) =>
        /\ res.status = "error"
        /\ res.out = NoTensor
        /\ res.err \in {"AssertionError:input_dtype", "ValueError:unsupported_dtype",
                        "AssertionError:quant_min", "AssertionError:quant_max"}

\* a float32 input with quant_max above the dtype's maximum, rejected by the
\* check of quant_max
QuantizePerTensorBoundsCheckWitness ==
    /\ op = "quantize_per_tensor"
    /\ args.input.dtype = "float32"
    /\ args.quant_min >= DtypeMin(args.dtype)
    /\ args.quant_max > DtypeMax(args.dtype)
    /\ res.status = "error"
    /\ res.err = "AssertionError:quant_max"

KernelOps ==
    QuantizeOps \cup {"dequantize_per_tensor", "dequantize_per_channel",
                      "dequantize_per_token", "dequantize_per_channel_group"}

CheckedOps ==
    {"quantize_per_tensor", "quantize_per_channel", "dequantize_per_channel",
     "quantize_per_token"}

\* C7, as stated: every quantize and dequantize kernel (per-tensor,
\* per-channel, per-token, per-channel-group) fails when quant_min is below
\* the dtype's minimum or quant_max above its maximum.
EveryKernelChecksBounds ==
    (op \in KernelOps /\ OutOfRange(args)) => res.status = "error"

\* C7, amended: quantize_per_tensor, quantize_per_channel,
\* dequantize_per_channel and quantize_per_token fail when quant_min is below
\* the dtype's minimum or quant_max above its maximum; the other four kernels
\* never fail on quant_min or quant_max.
CheckedKernelsCheckBounds ==
    /\ (op \in CheckedOps /\ OutOfRange(args)) =>
          (res.status = "error" /\ res.out = NoTensor)
    /\ (op \in KernelOps \ CheckedOps) =>
          res.err \notin {"AssertionError:quant_min", "AssertionError:quant_max"}

\* dequantize_per_channel rejecting a quant_min below the dtype's minimum
CheckedKernelsCheckBoundsWitness ==
    /\ op = "dequantize_per_channel"
    /\ args.quant_min < DtypeMin(args.dtype)
    /\ args.quant_max <= DtypeMax(args.dtype)
    /\ res.err = "AssertionError:quant_min"

\* C10: quantize_per_token fails, with no output, whenever the element count
\* of scales or of zero_points differs from numel(input) / trailing_dim, and
\* never fails on that check when both counts equal it.
PerTokenCountCheck ==
    op = "quantize_per_token" =>
        LET tokens == Numel(args.input) \div Last(args.input.shape)
            mismatch == Numel(args.scales) # tokens \/ Numel(args.zero_points) # tokens
        IN  /\ mismatch => (res.status = "error" /\ res.out = NoTensor)
            /\ ~mismatch => res.err \notin {"AssertionError:num_tokens_scales",
                                           "AssertionError:num_tokens_zero_points"}

\* a call whose scales match the number of tokens and whose zero_points do
\* not, rejected by the check of zero_points
PerTokenCountCheckWitness ==
    /\ op = "quantize_per_token"
    /\ Numel(args.scales) = Numel(args.input) \div Last(args.input.shape)
    /\ Numel(args.zero_points) # Numel(args.scales)
    /\ res.err = "AssertionError:num_tokens_zero_points"

(***************************************************************************)
(* Properties of FakeQuantPerChannel, checked under SpecFakeQuant.         *)
(***************************************************************************)
BackwardDone == op = "fake_quant_backward" /\ res.status = "ok"

\* the pre-clamp value round(input / scale) + zero_point of element i, as the
\* forward of the context of the last backward computed it
PreOf(i) == pre[args.ctx].temp.data[i]

\* C5, as stated: after a forward in which some pre-clamp values exceed
\* quant_max, backward returns 0 at those positions and the incoming gradient
\* unchanged at all other positions, and None for the five other arguments.
GradientMaskedAboveOnly ==
    (BackwardDone /\ \E i \in 1..Numel(res.out) : PreOf(i) > pre[args.ctx].quant_max) =>
        /\ \A i \in 1..Numel(res.out) :
              res.out.data[i] = IF PreOf(i) > pre[args.ctx].quant_max THEN 0
                                ELSE args.gy.data[i]
        /\ res.rest = <<"None", "None", "None", "None", "None">>

\* C5, amended: backward returns 0 at the positions whose pre-clamp value is
\* above quant_max or below quant_min and the incoming gradient unchanged at
\* all other positions, and None for the five other arguments.
GradientMasked ==
    BackwardDone =>
        /\ Numel(res.out) = Numel(args.gy)
        /\ \A i \in 1..Numel(res.out) :
              res.out.data[i] =
                  IF PreOf(i) > pre[args.ctx].quant_max \/ PreOf(i) < pre[args.ctx].quant_min
                  THEN 0 ELSE args.gy.data[i]
        /\ res.rest = <<"None", "None", "None", "None", "None">>

\* a backward after a forward that saturated one element above quant_max,
\* one below quant_min and left a third one inside
GradientMaskedWitness ==
    /\ BackwardDone
    /\ \E i, j, k \in 1..Numel(res.out) :
          /\ PreOf(i) > pre[args.ctx].quant_max
          /\ res.out.data[i] = 0
          /\ PreOf(j) < pre[args.ctx].quant_min
          /\ res.out.data[j] = 0
          /\ PreOf(k) >= pre[args.ctx].quant_min
          /\ PreOf(k) <= pre[args.ctx].quant_max
          /\ res.out.data[k] = args.gy.data[k]
          /\ res.out.data[k] # 0

PerChannelOps == {"quantize_per_channel", "dequantize_per_channel"}

PerTokenOps == {"quantize_per_token", "dequantize_per_token"}

PerGroupOps == {"quantize_per_channel_group", "dequantize_per_channel_group"}

\* scales or zero_points (when given) do not have n entries
CountMismatch(a, n) ==
    Numel(a.scales) # n \/ (a.zero_points # NoTensor /\ Numel(a.zero_points) # n)

\* the single-group fallback of the per-channel-group kernels
SingleGroupFallback(a) == a.group_size > Last(a.input.shape) /\ Numel(a.scales) = 1

\* C11: quantize/dequantize per_channel, per_token and per_channel_group fail
\* whenever the element count of scales or zero_points differs from the number
\* of channels, tokens or groups of the input (the single-group fallback
\* apart); no call with extra or too few entries succeeds.
ParameterCountChecked ==
    /\ (op \in PerChannelOps /\ args.axis < Dim(args.input)
          /\ CountMismatch(args, args.input.shape[args.axis + 1]))
       => res.status = "error"
    /\ (op \in PerTokenOps /\ CountMismatch(args, Prod(Front(args.input.shape))))
       => res.status = "error"
    /\ (op \in PerGroupOps /\ args.group_size > 1 /\ ~SingleGroupFallback(args)
          /\ CountMismatch(args, Numel(args.input) \div args.group_size))
       => res.status = "error"

(***************************************************************************)
(* Preconditions of quantize_per_channel_group, checked under Spec.        *)
(***************************************************************************)
HasNaN(t) == \E k \in 1..Numel(t) : t.data[k] = NaN

\* C12, as stated: quantize_per_channel_group fails when group_size <= 1;
\* with group_size above the trailing dimension and exactly one scale and
\* zero_point element it succeeds; in every other case it fails unless the
\* input has rank 2 and trailing_dim % group_size = 0.
GroupPreconditionsAsStated ==
    op = "quantize_per_channel_group" =>
        LET trailing == Last(args.input.shape)
            single == /\ args.group_size > trailing
                      /\ Numel(args.scales) = 1
                      /\ Numel(args.zero_points) = 1
        IN  /\ args.group_size <= 1 => res.status = "error"
            /\ (args.group_size > 1 /\ single) => res.status = "ok"
            /\ (args.group_size > 1 /\ ~single
                  /\ ~(Dim(args.input) = 2 /\ trailing % args.group_size = 0))
               => res.status = "error"

\* C12, amended: quantize_per_channel_group fails when group_size <= 1; with
\* group_size above the trailing dimension and a trailing dimension of 1 in
\* scales, the whole trailing dimension is one group; with the group size so
\* settled it fails unless the input has rank 2 and trailing_dim % group_size
\* = 0; in the single-group case a rank-2 input without NaN and with exactly
\* one scale and zero_point element succeeds, every element quantized with
\* that scale and zero_point.
GroupPreconditions ==
    op = "quantize_per_channel_group" =>
        LET trailing == Last(args.input.shape)
            fallback == args.group_size > trailing /\ Last(args.scales.shape) = 1
            gs == IF fallback THEN trailing ELSE args.group_size
        IN  /\ args.group_size <= 1 => res.status = "error"
            /\ ~(Dim(args.input) = 2 /\ trailing % gs = 0) => res.status = "error"
            /\ (/\ args.group_size > 1
                /\ fallback
                /\ Dim(args.input) = 2
                /\ ~HasNaN(args.input)
                /\ Numel(args.scales) = 1
                /\ Numel(args.zero_points) = 1)
               => /\ res.status = "ok"
                  /\ res.out.shape = args.input.shape
                  /\ \A k \in 1..Numel(args.input) :
                        LET v == Clamp(RoundHalfEven(args.input.data[k], args.scales.data[1])
                                         + args.zero_points.data[1],
                                       args.quant_min, args.quant_max)
                        IN  res.out.data[k] \in {Cast(v, args.dtype, m) : m \in CastModes}

\* a two-row input quantized as single groups, group_size above the trailing
\* dimension
GroupPreconditionsWitness ==
    /\ op = "quantize_per_channel_group"
    /\ args.input.shape = <<2, 2>>
    /\ args.group_size > 2
    /\ Numel(args.scales) = 1
    /\ Numel(args.zero_points) = 1
    /\ res.status = "ok"
    /\ res.out.shape = <<2, 2>>

(***************************************************************************)
(* The forward / backward protocol of FakeQuantPerChannel, checked under   *)
(* SpecFakeQuant.                                                          *)
(***************************************************************************)
\* the saturation mask of the forward that context c ran, recomputed from the
\* pre-clamp values of that forward
MaskOf(c) ==
    Tensor("bool", pre[c].temp.shape,
           [k \in 1..Numel(pre[c].temp) |->
              FakeQuantMask(pre[c].temp.data[k], pre[c].quant_min, pre[c].quant_max)])

\* C13: each forward records one saturation mask, and a backward uses the mask
\* of its own forward: under every interleaving of the forward / backward
\* pairs of two contexts the mask a context holds is the one its own forward
\* computed, the result of a backward is the incoming gradient times that
\* mask, and a forward whose backward never runs changes no other context.
ForwardBackwardProtocol ==
    /\ \A c \in Ctx : saved[c].dtype = "bool" => saved[c] = MaskOf(c)
    /\ (op = "fake_quant_forward" /\ res.status = "ok") =>
          /\ saved[args.ctx].dtype = "bool"
          /\ saved[args.ctx].shape = res.out.shape
    /\ BackwardDone =>
          /\ saved[args.ctx] = Released
          /\ res.out.data = [i \in 1..Numel(args.gy) |->
                               args.gy.data[i] * MaskOf(args.ctx).data[i]]

\* backward of one context while the other context, whose forward recorded a
\* different mask of the same shape, still waits for its backward
ForwardBackwardProtocolWitness ==
    /\ BackwardDone
    /\ \E o \in Ctx \ {args.ctx} :
          /\ saved[o].dtype = "bool"
          /\ saved[o].shape = MaskOf(args.ctx).shape
          /\ \E i \in 1..Numel(res.out) :
                /\ saved[o].data[i] = 1
                /\ MaskOf(args.ctx).data[i] = 0
                /\ res.out.data[i] = 0
          /\ \E j \in 1..Numel(res.out) :
                /\ saved[o].data[j] = 0
                /\ MaskOf(args.ctx).data[j] = 1
                /\ res.out.data[j] = args.gy.data[j]

(***************************************************************************)
(* The inference entry points against the real kernels.                    *)
(***************************************************************************)
Inferred == meta.status # "none"

\* the failures of a real kernel that come from a check of its arguments, as
\* opposed to the failures of the tensor arithmetic itself
PreconditionErrors ==
    {"AssertionError:input_dtype", "AssertionError:axis", "AssertionError:quant_min",
     "AssertionError:quant_max", "ValueError:unsupported_dtype",
     "AssertionError:num_tokens_scales", "AssertionError:num_tokens_zero_points",
     "AssertionError:group_size", "AssertionError:divisible", "AssertionError:dim",
     "AssertionError:target_dtype", "AssertionError:qmin_qmax",
     "Exception:unsupported_dtype"}

\* C14: for every operator with both entry points and every argument
\* combination, the inference entry point fails if and only if the real
\* kernel fails on a precondition.
InferenceValidatesSame ==
    Inferred => (meta.status = "error" <=> res.err \in PreconditionErrors)

\* C15: for every operator and every valid argument combination, the shape and
\* the element dtype that the inference entry point returns are the shape and
\* the element dtype of what the real kernel returns, in particular for
\* choose_qparams_per_token and choose_qparams_per_token_asymmetric.
InferenceDescriptorMatches ==
    (Inferred /\ meta.status = "ok" /\ res.status = "ok") =>
        /\ meta.out.shape = res.out.shape
        /\ meta.out.dtype = res.out.dtype
        /\ meta.out2.shape = res.out2.shape
        /\ meta.out2.dtype = res.out2.dtype

(***************************************************************************)
(* quant_min / quant_max as metadata of the dequantize kernels, checked    *)
(* under Spec.                                                             *)
(***************************************************************************)
\* the (quant_min, quant_max) pairs a second call may carry
MetaPairs == {<<qr.quant_min, qr.quant_max>> : qr \in VectorQuantRanges}

\* the arguments a with quant_min and quant_max replaced
WithRange(a, p) == [a EXCEPT !.quant_min = p[1], !.quant_max = p[2]]

InDtypeRange(a) == ~OutOfRange(a)

RatEq(x, y) == x.num * y.den = y.num * x.den

\* round(clamp(num / den, lo, hi)) for den > 0
RoundClamped(num, den, lo, hi) == RoundHalfEven(Clamp(num, lo * den, hi * den), den)

\* the values of token t (1-based) of the last input
TokenValues(t) ==
    LET n == Last(args.input.shape)
    IN  {args.input.data[(t - 1) * n + j] : j \in 1..n}

\* C17: for every token, with qmin = -128, qmax = 127, min_val_neg = min(min, 0)
\* and max_val_pos = max(max, 0), choose_qparams_per_token_asymmetric returns
\* scale = max((max_val_pos - min_val_neg) / 255, eps) > 0 and an integer
\* zero_point in [-128, 127], equal to round(clamp(-128 - min_val_neg / scale,
\* -128, 127)) when (-128 + min_val_neg / scale) + (127 + max_val_pos / scale)
\* > 0 and to round(clamp(127 - max_val_pos / scale, -128, 127)) otherwise.
AsymmetricQParams ==
    (op = "choose_qparams_per_token_asymmetric") =>
        /\ res.status = "ok"
        /\ Numel(res.out) = Numel(args.input) \div Last(args.input.shape)
        /\ Numel(res.out2) = Numel(res.out)
        /\ \A t \in 1..Numel(res.out) :
              LET lo == CHOOSE x \in TokenValues(t) \cup {0} :
                            \A y \in TokenValues(t) \cup {0} : x <= y
                  hi == CHOOSE x \in TokenValues(t) \cup {0} :
                            \A y \in TokenValues(t) \cup {0} : x >= y
                  s == res.out.data[t]
                  z == res.out2.data[t]
                  \* x / s for x in units is (x * s.den) / d
                  d == Unit * s.num
              IN  /\ s.num > 0 /\ s.den > 0
                  /\ IF (hi - lo) * (2 ^ 23) >= Unit * 255
                     THEN RatEq(s, Rat(hi - lo, Unit * 255))
                     ELSE RatEq(s, Rat(1, 2 ^ 23))
                  /\ z \in -128..127
                  /\ IF (-128 * d + lo * s.den) + (127 * d + hi * s.den) > 0
                     THEN z = RoundClamped(-128 * d - lo * s.den, d, -128, 127)
                     ELSE z = RoundClamped(127 * d - hi * s.den, d, -128, 127)

\* a token of zeros, whose scale is eps and whose zero_point comes from the
\* max side, next to the token (-1.0, 2.5) with scale 3.5 / 255 and zero_point
\* -55
AsymmetricQParamsWitness ==
    /\ op = "choose_qparams_per_token_asymmetric"
    /\ res.status = "ok"
    /\ args.input.data = <<0, 0, -Unit, (5 * Unit) \div 2>>
    /\ args.input.shape = <<2, 2>>
    /\ RatEq(res.out.data[1], Rat(1, 2 ^ 23))
    /\ RatEq(res.out.data[2], Rat(7, 2 * 255))
    /\ res.out2.data = <<127, -55>>

(***************************************************************************)
(* quantize_per_channel against quantize_per_tensor, checked under Spec.   *)
(***************************************************************************)
\* quantize_per_tensor of the single value x, under either cast
PerTensorOf(x, scale, zero_point, a) ==
    {quantize_per_tensor([input |-> Tensor("float32", <<1>>, <<x>>), scale |-> scale,
                          zero_point |-> zero_point, quant_min |-> a.quant_min,
                          quant_max |-> a.quant_max, dtype |-> a.dtype], m).out.data[1]
        : m \in CastModes}

\* C18: for every input of rank r, every axis with 0 <= axis < r and scales and
\* zero_points with one entry per channel, quantize_per_channel returns a
\* tensor of the input's shape whose element of index i along axis is
\* quantize_per_tensor of that element with scales[i] and zero_points[i]; the
\* permutation that swaps axis with position 0 is self-inverse; a call with
\* axis >= rank fails.
PerChannelIsPerSlice ==
    op = "quantize_per_channel" =>
        /\ ~(args.axis < Dim(args.input)) => res.status = "error"
        /\ args.axis < Dim(args.input) =>
              LET pa == permute_to_axis_zero(args.input, args.axis)
              IN  /\ Permute(pa[1], pa[2]) = args.input
                  /\ [j \in 1..Dim(args.input) |-> pa[2][pa[2][j] + 1]]
                        = [j \in 1..Dim(args.input) |-> j - 1]
                  /\ pa[1].shape[1] = args.input.shape[args.axis + 1]
        /\ (/\ args.axis < Dim(args.input)
            /\ Widen(args.input).dtype = "float32"
            /\ Supported(args.dtype)
            /\ ~OutOfRange(args)
            /\ Numel(args.scales) = args.input.shape[args.axis + 1]
            /\ Numel(args.zero_points) = args.input.shape[args.axis + 1]) =>
              /\ res.status = "ok"
              /\ res.out.shape = args.input.shape
              /\ res.out.dtype = args.dtype
              /\ \A k \in 1..Numel(args.input) :
                    LET i == Unravel(k - 1, args.input.shape)[args.axis + 1]
                    IN  res.out.data[k] \in PerTensorOf(args.input.data[k],
                                                        args.scales.data[i + 1],
                                                        args.zero_points.data[i + 1], args)

\* a rank-3 input quantized along its last axis, the two channels with
\* different scales and zero_points
PerChannelIsPerSliceWitness ==
    /\ op = "quantize_per_channel"
    /\ res.status = "ok"
    /\ Dim(args.input) = 3
    /\ args.axis = 2
    /\ args.input.shape[3] = Numel(args.scales)
    /\ Numel(args.scales) = Numel(args.zero_points)
    /\ Numel(args.scales) > 1
    /\ args.scales.data[1] # args.scales.data[2]
    /\ args.quant_min < args.quant_max
    /\ \E k \in 1..Numel(res.out) : res.out.data[k] # res.out.data[1]

(***************************************************************************)
(* FakeQuantPerChannel.forward against the real round trip, checked under  *)
(* SpecFakeQuant.                                                          *)
(***************************************************************************)
\* dequantize_per_channel(quantize_per_channel(...)) on the arguments a of a
\* forward, through the integer dtype k
RealRoundTrip(a, k, castMode) ==
    LET q == quantize_per_channel(
                 [input |-> a.input, scales |-> a.scales, zero_points |-> a.zero_points,
                  axis |-> a.axis, quant_min |-> a.quant_min, quant_max |-> a.quant_max,
                  dtype |-> k], castMode)
    IN  IF q.status # "ok" THEN q
        ELSE dequantize_per_channel(
                 [input |-> q.out, scales |-> a.scales, zero_points |-> a.zero_points,
                  axis |-> a.axis, quant_min |-> a.quant_min, quant_max |-> a.quant_max,
                  dtype |-> k, out_dtype |-> "None"])

\* the integer dtypes whose range holds [quant_min, quant_max]
DtypesHolding(a) ==
    {k \in DOMAIN DTYPE_TO_QVALUE_BOUNDS :
        DtypeMin(k) <= a.quant_min /\ a.quant_max <= DtypeMax(k)}

\* C19: for every float32 input, valid axis, one scale > 0 and one integer
\* zero_point per channel and quant_min <= quant_max inside the range of an
\* integer dtype k, the output of FakeQuantPerChannel.forward equals
\* dequantize_per_channel(quantize_per_channel(input, ..., k), ..., k) element
\* for element, and the recorded mask is false exactly where the clamp changed
\* the value.
FakeQuantIsRoundTrip ==
    (/\ op = "fake_quant_forward"
     /\ args.input.dtype = "float32"
     /\ args.axis < Dim(args.input)
     /\ Numel(args.scales) = args.input.shape[args.axis + 1]
     /\ Numel(args.zero_points) = args.input.shape[args.axis + 1]
     /\ args.quant_min <= args.quant_max) =>
        /\ res.status = "ok"
        /\ DtypesHolding(args) # {}
        /\ \A k \in DtypesHolding(args), m \in CastModes :
              /\ RealRoundTrip(args, k, m).status = "ok"
              /\ RealRoundTrip(args, k, m).out = res.out
        /\ saved[args.ctx].shape = res.out.shape
        /\ \A i \in 1..Numel(res.out) :
              LET temp == pre[args.ctx].temp.data[i]
              IN  saved[args.ctx].data[i] = 0
                     <=> Clamp(temp, args.quant_min, args.quant_max) # temp

\* a forward over two channels with different scales in which the clamp
\* changes one element and leaves another
FakeQuantIsRoundTripWitness ==
    /\ op = "fake_quant_forward"
    /\ res.status = "ok"
    /\ Dim(args.input) = 2
    /\ args.axis = 1
    /\ Numel(args.scales) = 2
    /\ Numel(args.zero_points) = 2
    /\ args.scales.data[1] # args.scales.data[2]
    /\ \E i, j \in 1..Numel(res.out) :
          /\ saved[args.ctx].data[i] = 0
          /\ saved[args.ctx].data[j] = 1
          /\ res.out.data[i] # 0
          /\ res.out.data[j] # res.out.data[i]

====
